---- MODULE Spec2Model ----
(***************************************************************************)
(* A model of package seer (src/seer.go): the Seer error value, its three  *)
(* constructors, WithCode, the process-wide configuration and the          *)
(* accessors and renderings.                                               *)
(*                                                                         *)
(* Go strings are sequences of one-character strings, so that TrimSpace,   *)
(* the caller-name normalisation and the Sprintf renderings are computed   *)
(* character by character.  *Seer pointers are indexes into errs, the      *)
(* values allocated so far in allocation order.  The methods that only     *)
(* read (Code, Error, String, ...) are operators over the state.           *)
(*                                                                         *)
(* Lines 288-329 of src/seer.go hold an earlier draft of the package (a    *)
(* WrapError that returns nil); lines 1-286 supersede it and are the       *)
(* program modelled here.                                                  *)
(***************************************************************************)
EXTENDS Integers, Sequences, FiniteSets

\* ------------------------------------------------------------------ bounds

\* How many Seer values a run allocates.
MaxErrs == 2

\* ------------------------------------------------------- program constants

\* The bounds of a valid code: code < 100 || code > 599.
MinCode == 100
MaxCode == 599
\* errCode := 500 in New.
NewCode == 500
\* defaultCode = 500.
InitDefaultCode == 500

\* defaultMessage = "an error occurred"
InitDefaultMessage ==
    <<"a", "n", " ", "e", "r", "r", "o", "r", " ", "o", "c", "c", "u", "r", "r", "e", "d">>

\* ------------------------------------------------------------------ inputs

Ops == { <<"o", "p">> }

\* Message texts handed to the constructors and to SetDefaultMessage.
Texts == { <<>>, <<" ">>, <<"m">>, InitDefaultMessage }

\* A variadic customMessage ...string: no argument, or one.
OptMessages == { <<>> } \cup { <<m>> : m \in Texts \ { <<" ">> } }

CodeArgs == { 99, 100, 600 }

\* A variadic code ...int: no argument, or one.
OptCodes == { <<>> } \cup { <<c>> : c \in CodeArgs }

\* The values of Go's error interface: nil, an error that is no *Seer
\* (errors.New(text)), or a *Seer.
NilError == [kind |-> "nil", text |-> <<>>, ref |-> 0]
PlainError(t) == [kind |-> "plain", text |-> t, ref |-> 0]
SeerError(i) == [kind |-> "seer", text |-> <<>>, ref |-> i]

PlainErrors == { PlainError(<<"i", "o">>) }

\* What runtime.Caller(2) can report: no frame (ok = false), or the
\* frame of the function that called the constructor.
NoFrame == [ok |-> FALSE, fn |-> <<>>, file |-> <<>>, line |-> 0]
Frames ==
    { NoFrame,
      [ok |-> TRUE,
       fn |-> <<"p", "k", "g", "/", "m", "a", "i", "n", ".", "r", "u", "n", ".", "f", "u", "n", "c", "1">>,
       file |-> <<"m", "a", "i", "n", ".", "g", "o">>,
       line |-> 27] }

\* ------------------------------------------------------------ Go's strings

IsSpace(c) == c \in { " ", "\t", "\n", "\r" }

\* strings.TrimSpace(s) != ""
RECURSIVE TrimLeft(_)
TrimLeft(s) ==
    IF s # <<>> /\ IsSpace(Head(s)) THEN TrimLeft(Tail(s)) ELSE s

RECURSIVE TrimRight(_)
TrimRight(s) ==
    IF s # <<>> /\ IsSpace(s[Len(s)]) THEN TrimRight(SubSeq(s, 1, Len(s) - 1)) ELSE s

TrimSpace(s) == TrimRight(TrimLeft(s))

IsDigit(c) == c \in { "0", "1", "2", "3", "4", "5", "6", "7", "8", "9" }

DigitChar(d) == <<"0", "1", "2", "3", "4", "5", "6", "7", "8", "9">>[d + 1]

\* %d of a non-negative int.
RECURSIVE Digits(_)
Digits(n) ==
    IF n < 10 THEN <<DigitChar(n)>> ELSE Digits(n \div 10) \o <<DigitChar(n % 10)>>

\* fmt's %d.
Itoa(n) == IF n < 0 THEN <<"-">> \o Digits(0 - n) ELSE Digits(n)

\* strings.LastIndex(s, "/") + 1, as a 0-based offset: 0 when there is none.
AfterLastSlash(s) ==
    LET at == { k \in 1..Len(s) : s[k] = "/" }
    IN  IF at = {} THEN 0 ELSE CHOOSE k \in at : \A j \in at : j <= k

\* The number of digits s ends with.
RECURSIVE TrailingDigits(_)
TrailingDigits(s) ==
    IF s # <<>> /\ IsDigit(s[Len(s)])
    THEN 1 + TrailingDigits(SubSeq(s, 1, Len(s) - 1))
    ELSE 0

FuncLit == <<".", "f", "u", "n", "c">>

\* funcSuffixRegex.ReplaceAllString(caller, "") with \.(func\d+)$
StripFuncSuffix(s) ==
    LET d == TrailingDigits(s)
        n == Len(s) - d
    IN  IF d >= 1 /\ n >= Len(FuncLit) /\ SubSeq(s, n - Len(FuncLit) + 1, n) = FuncLit
        THEN SubSeq(s, 1, n - Len(FuncLit))
        ELSE s

\* getRuntimeInfo, given what runtime.Caller reports: <<caller, file, line>>.
getRuntimeInfo(frame) ==
    IF ~frame.ok
    THEN <<<<>>, <<>>, 0>>
    ELSE <<StripFuncSuffix(SubSeq(frame.fn, AfterLastSlash(frame.fn) + 1, Len(frame.fn))),
           frame.file, frame.line>>

\* ------------------------------------------------------------------- state

VARIABLES
    collectStackTrace,  \* the package variable
    defaultCode,        \* the package variable
    defaultMessage,     \* the package variable
    errs,               \* the Seer values allocated so far
    built               \* for each value, how it was constructed (history)

vars == <<collectStackTrace, defaultCode, defaultMessage, errs, built>>

Refs == DOMAIN errs

\* The errors a caller can hand to Wrap: nil, a plain error, a *Seer it holds.
Errors == { NilError } \cup PlainErrors \cup { SeerError(i) : i \in Refs }

Init ==
    /\ collectStackTrace = TRUE
    /\ defaultCode = InitDefaultCode
    /\ defaultMessage = InitDefaultMessage
    /\ errs = <<>>
    /\ built = <<>>

\* ------------------------------------------------------- methods of *Seer

\* func (s *Seer) Code() int
Code(i) == IF errs[i].code = 0 THEN defaultCode ELSE errs[i].code

\* func (s *Seer) Error() string; originalError.Error() is the text of a plain
\* error and Error() again of a *Seer.
RECURSIVE Error(_)
Error(i) ==
    LET s == errs[i]
    IN  IF s.message = defaultMessage /\ s.originalError # NilError
        THEN IF s.originalError.kind = "seer"
             THEN Error(s.originalError.ref)
             ELSE s.originalError.text
        ELSE s.message

\* err.Error() of a non-nil value of the error interface.
ErrorText(e) == IF e.kind = "seer" THEN Error(e.ref) ELSE e.text

\* func (s *Seer) Message() string
Message(i) == errs[i].message

\* func (s *Seer) Operation() string
Operation(i) == errs[i].op

\* func (s *Seer) OriginalError() error
OriginalError(i) == errs[i].originalError

\* func (s *Seer) ErrorWithStackTrace() string
ErrorWithStackTrace(i) ==
    LET s == errs[i]
        originalError == IF s.originalError # NilError THEN ErrorText(s.originalError) ELSE <<>>
    IN  IF collectStackTrace
        THEN s.file \o <<":">> \o Itoa(s.line) \o <<" ", "(">> \o s.caller \o <<":", ":">> \o s.op
                \o <<")", ":", " ">> \o s.message
                \o <<",", " ", "o", "r", "i", "g", "i", "n", "a", "l", "_", "e", "r", "r", "=">>
                \o originalError
        ELSE s.op \o <<":", " ">> \o s.message

\* func (s *Seer) UnwrapError() (error, bool)
UnwrapError(i) == <<errs[i].originalError, errs[i].originalError.kind = "seer">>

WrappedLit ==
    <<"\n", "\t", "W", "r", "a", "p", "p", "e", "d", " ", "e", "r", "r", "o", "r", ":", " ">>

\* func (s *Seer) String() string
String(i) ==
    LET s == errs[i]
        head == IF collectStackTrace
                THEN s.file \o <<":">> \o Itoa(s.line) \o <<" ", "(">> \o s.caller
                        \o <<":", ":">> \o s.op \o <<")">>
                ELSE s.op \o <<":", " ">> \o s.message
    IN  IF s.originalError # NilError
        THEN head \o WrappedLit \o ErrorText(s.originalError)
        ELSE head

\* func (s *Seer) MarshalJSON() ([]byte, error): the members of the object
\* json.Marshal writes for the map data, one <<key, value>> per key of the map,
\* in the order json.Marshal writes a map's keys (sorted).
MarshalJSON(i) ==
    LET s == errs[i]
        runtime == IF collectStackTrace /\ (s.caller # <<>> \/ s.file # <<>> \/ s.line # 0)
                   THEN << <<"caller", s.caller>>, <<"file", s.file>>, <<"line", s.line>> >>
                   ELSE <<>>
        previous == IF s.originalError # NilError
                    THEN << <<"previous_error", ErrorText(s.originalError)>> >>
                    ELSE <<>>
    IN  runtime \o << <<"message", s.message>>, <<"operation", s.op>> >> \o previous

\* func (s *Seer) UnmarshalJSON(data []byte) error: returns nil, changes nothing.
UnmarshalJSON(i, data) == NilError

\* ------------------------------------------------------------ constructors

\* func New(operation string, message string, code ...int) *Seer
New(operation, message, code, frame) ==
    /\ Len(errs) < MaxErrs
    /\ LET info == IF collectStackTrace THEN getRuntimeInfo(frame) ELSE <<<<>>, <<>>, 0>>
           errCode == IF Len(code) > 0
                      THEN IF code[1] < MinCode \/ code[1] > MaxCode THEN NewCode ELSE code[1]
                      ELSE NewCode
       IN  errs' = Append(errs, [op |-> operation, originalError |-> NilError,
                                 message |-> message, code |-> errCode,
                                 caller |-> info[1], file |-> info[2], line |-> info[3]])
    /\ built' = Append(built, [ctor |-> "New", collect |-> collectStackTrace, custom |-> TRUE])
    /\ UNCHANGED <<collectStackTrace, defaultCode, defaultMessage>>

\* Wrap capturing the caller whatever collectStackTrace is.
WrapAlwaysCollects(op, originalError, customMessage, frame) ==
    /\ Len(errs) < MaxErrs
    /\ LET info == getRuntimeInfo(frame)
           message == IF Len(customMessage) > 0 THEN customMessage[1] ELSE defaultMessage
       IN  errs' = Append(errs, [op |-> op, originalError |-> originalError,
                                 message |-> message, code |-> 0,
                                 caller |-> info[1], file |-> info[2], line |-> info[3]])
    /\ built' = Append(built, [ctor |-> "Wrap", collect |-> collectStackTrace,
                               custom |-> Len(customMessage) > 0])
    /\ UNCHANGED <<collectStackTrace, defaultCode, defaultMessage>>

\* Wrap leaving originalError out of the value it builds.
WrapLosesOriginal(op, originalError, customMessage, frame) ==
    /\ Len(errs) < MaxErrs
    /\ LET info == IF collectStackTrace THEN getRuntimeInfo(frame) ELSE <<<<>>, <<>>, 0>>
           message == IF Len(customMessage) > 0 THEN customMessage[1] ELSE defaultMessage
       IN  errs' = Append(errs, [op |-> op, originalError |-> NilError,
                                 message |-> message, code |-> 0,
                                 caller |-> info[1], file |-> info[2], line |-> info[3]])
    /\ built' = Append(built, [ctor |-> "Wrap", collect |-> collectStackTrace,
                               custom |-> Len(customMessage) > 0])
    /\ UNCHANGED <<collectStackTrace, defaultCode, defaultMessage>>

\* func Wrap(op string, originalError error, customMessage ...string) *Seer
Wrap(op, originalError, customMessage, frame) ==
    /\ Len(errs) < MaxErrs
    /\ LET info == IF collectStackTrace THEN getRuntimeInfo(frame) ELSE <<<<>>, <<>>, 0>>
           message == IF Len(customMessage) > 0 THEN customMessage[1] ELSE defaultMessage
       IN  errs' = Append(errs, [op |-> op, originalError |-> originalError,
                                 message |-> message, code |-> 0,
                                 caller |-> info[1], file |-> info[2], line |-> info[3]])
    /\ built' = Append(built, [ctor |-> "Wrap", collect |-> collectStackTrace,
                               custom |-> Len(customMessage) > 0])
    /\ UNCHANGED <<collectStackTrace, defaultCode, defaultMessage>>

\* func WrapWithStackTrace(operation string, originalError error, customMessage ...string) *Seer
WrapWithStackTrace(operation, originalError, customMessage, frame) ==
    /\ Len(errs) < MaxErrs
    /\ LET info == getRuntimeInfo(frame)
           message == IF Len(customMessage) > 0 THEN customMessage[1] ELSE defaultMessage
       IN  errs' = Append(errs, [op |-> operation, originalError |-> originalError,
                                 message |-> message, code |-> 0,
                                 caller |-> info[1], file |-> info[2], line |-> info[3]])
    /\ built' = Append(built, [ctor |-> "WrapWithStackTrace", collect |-> collectStackTrace,
                               custom |-> Len(customMessage) > 0])
    /\ UNCHANGED <<collectStackTrace, defaultCode, defaultMessage>>

\* WithCode without the range check.
WithCodeUnchecked(i, code) ==
    /\ errs' = [errs EXCEPT ![i].code = code]
    /\ UNCHANGED <<collectStackTrace, defaultCode, defaultMessage, built>>

\* func (s *Seer) WithCode(code int) *Seer
WithCode(i, code) ==
    /\ errs' = IF code < MinCode \/ code > MaxCode
               THEN errs
               ELSE [errs EXCEPT ![i].code = code]
    /\ UNCHANGED <<collectStackTrace, defaultCode, defaultMessage, built>>

\* ----------------------------------------------------------- configuration

\* func SetDefaultMessage(message string)
SetDefaultMessage(message) ==
    /\ defaultMessage' = IF TrimSpace(message) # <<>> THEN message ELSE defaultMessage
    /\ UNCHANGED <<collectStackTrace, defaultCode, errs, built>>

\* func SetCollectStackTrace(flag bool)
SetCollectStackTrace(flag) ==
    /\ collectStackTrace' = flag
    /\ UNCHANGED <<defaultCode, defaultMessage, errs, built>>

\* SetDefaultCode without the range check.
SetDefaultCodeUnchecked(code) ==
    /\ defaultCode' = code
    /\ UNCHANGED <<collectStackTrace, defaultMessage, errs, built>>

\* func SetDefaultCode(code int)
SetDefaultCode(code) ==
    /\ defaultCode' = IF code < MinCode \/ code > MaxCode THEN defaultCode ELSE code
    /\ UNCHANGED <<collectStackTrace, defaultMessage, errs, built>>

\* ------------------------------------------------------------ the program

Next ==
    \/ \E o \in Ops, m \in Texts \ { <<" ">> }, c \in OptCodes, f \in Frames : New(o, m, c, f)
    \/ \E o \in Ops, e \in Errors, m \in OptMessages, f \in Frames : Wrap(o, e, m, f)
    \/ \E o \in Ops, e \in Errors, m \in OptMessages, f \in Frames :
            WrapWithStackTrace(o, e, m, f)
    \/ \E i \in Refs, c \in CodeArgs : WithCode(i, c)
    \/ \E m \in Texts : SetDefaultMessage(m)
    \/ \E b \in BOOLEAN : SetCollectStackTrace(b)
    \/ \E c \in CodeArgs : SetDefaultCode(c)

Spec == Init /\ [][Next]_vars

\* ------------------------------------------------------------------ claims

InRange(c) == 100 <= c /\ c <= 599

\* Provenance was captured for value i when it was constructed: the switch was
\* on, or the constructor was WrapWithStackTrace.
Captured(i) == built[i].collect \/ built[i].ctor = "WrapWithStackTrace"

\* "<original error text or empty>"
OriginalText(i) ==
    IF errs[i].originalError = NilError THEN <<>> ELSE ErrorText(errs[i].originalError)

\* "<file>:<line> (<caller>::<operation>)"
ProvenancePrefix(i) ==
    errs[i].file \o <<":">> \o Itoa(errs[i].line) \o <<" ", "(">> \o errs[i].caller
        \o <<":", ":">> \o errs[i].op \o <<")">>

RuntimeKeys == { "caller", "file", "line" }

\* The keys of a marshalled object.
Keys(json) == { json[k][1] : k \in DOMAIN json }

\* C1: WithCode(c) with 100 <= c <= 599 makes Code() return c; with c outside
\* that range it leaves the stored code, and what Code() returns, as they were.
\* Either way the call returns: it allocates nothing and touches nothing else.
C1_WithCode ==
    [][\A i \in Refs, c \in CodeArgs :
          WithCode(i, c) =>
              /\ InRange(c) => Code(i)' = c
              /\ ~InRange(c) => errs'[i].code = errs[i].code /\ Code(i)' = Code(i)
              /\ DOMAIN errs' = DOMAIN errs
              /\ \A j \in Refs \ {i} : errs'[j] = errs[j]]_vars

\* A value Wrap built (stored code 0) on which WithCode(100) has acted, while
\* the default code is another one.
C1_Witness ==
    \E i \in Refs :
        /\ built[i].ctor # "New"
        /\ errs[i].code = 100
        /\ Code(i) = 100
        /\ defaultCode # 100

\* C2: a value New builds with the code omitted, or with a code outside
\* [100,599], has Code() equal to the default code in force, and never the
\* rejected code.
C2_NewUsesDefaultCode ==
    [][\A o \in Ops, m \in Texts, c \in OptCodes, f \in Frames, n \in 1..MaxErrs :
          (n = Len(errs) + 1 /\ New(o, m, c, f) /\ (c = <<>> \/ ~InRange(c[1]))) =>
              /\ Code(n)' = defaultCode'
              /\ c # <<>> => Code(n)' # c[1]]_vars

\* C3: Message() of every value is non-empty, and the default message is
\* never blank.
C3_MessageNeverEmpty ==
    /\ TrimSpace(defaultMessage) # <<>>
    /\ \A i \in Refs : Message(i) # <<>>

\* C4 as stated: a value any constructor built while the switch was false
\* marshals without caller, file and line, whatever the switch is now.
C4_Original ==
    \A i \in Refs :
        ~built[i].collect => Keys(MarshalJSON(i)) \cap RuntimeKeys = {}

\* C4 as amended: a value New or Wrap built while the switch was false
\* marshals without caller, file and line, whatever the switch is now; a value
\* WrapWithStackTrace built while the switch was false has the three keys
\* exactly when the switch is true now and the capture found a frame.
C4_Amended ==
    \A i \in Refs :
        ~built[i].collect =>
            IF built[i].ctor = "WrapWithStackTrace"
            THEN IF collectStackTrace
                    /\ (errs[i].caller # <<>> \/ errs[i].file # <<>> \/ errs[i].line # 0)
                 THEN RuntimeKeys \subseteq Keys(MarshalJSON(i))
                 ELSE Keys(MarshalJSON(i)) \cap RuntimeKeys = {}
            ELSE Keys(MarshalJSON(i)) \cap RuntimeKeys = {}

\* A value Wrap built while the switch was false, marshalled while it is true,
\* next to a value WrapWithStackTrace built while the switch was false.
C4_Witness ==
    /\ collectStackTrace
    /\ \E i \in Refs :
        /\ built[i].ctor = "Wrap"
        /\ ~built[i].collect
        /\ Keys(MarshalJSON(i)) = { "message", "operation", "previous_error" }
    /\ \E j \in Refs :
        /\ built[j].ctor = "WrapWithStackTrace"
        /\ ~built[j].collect
        /\ RuntimeKeys \subseteq Keys(MarshalJSON(j))

\* C5: ErrorWithStackTrace() is
\* "<file>:<line> (<caller>::<operation>): <message>, original_err=<text>" for a
\* value whose provenance was captured and "<operation>: <message>" for one
\* whose provenance was not, whatever the switch is now.
C5_FormatByCapture ==
    \A i \in Refs :
        ErrorWithStackTrace(i) =
            IF Captured(i)
            THEN ProvenancePrefix(i) \o <<":", " ">> \o errs[i].message
                    \o <<",", " ", "o", "r", "i", "g", "i", "n", "a", "l", "_", "e", "r", "r", "=">>
                    \o OriginalText(i)
            ELSE errs[i].op \o <<":", " ">> \o errs[i].message

\* C6: String() is the prefix without the message ("<file>:<line>
\* (<caller>::<operation>)" with provenance, the operation alone without),
\* followed by "\n\tWrapped error: <text>" exactly when there is an original
\* error.
C6_StringWithoutMessage ==
    \A i \in Refs :
        String(i) =
            (IF Captured(i) THEN ProvenancePrefix(i) ELSE errs[i].op)
                \o (IF errs[i].originalError # NilError
                    THEN WrappedLit \o OriginalText(i)
                    ELSE <<>>)

\* C7: a step that leaves the fields of a value as they are leaves what
\* String() and ErrorWithStackTrace() return for it as it is.
C7_SameOutput ==
    [][\A i \in Refs :
          errs'[i] = errs[i] =>
              /\ String(i)' = String(i)
              /\ ErrorWithStackTrace(i)' = ErrorWithStackTrace(i)]_vars

\* Following UnwrapError from value i reaches a result with flag false within
\* k hops.
RECURSIVE ReachesLeaf(_, _)
ReachesLeaf(i, k) ==
    IF ~UnwrapError(i)[2]
    THEN TRUE
    ELSE k > 0 /\ ReachesLeaf(UnwrapError(i)[1].ref, k - 1)

\* C8: UnwrapError() of Wrap(op, inner) is inner, with true exactly when inner
\* is a *Seer; every chain reaches flag false in finitely many hops; no step
\* changes what UnwrapError() returns for an existing value.
C8_Unwrap ==
    /\ [](\A i \in Refs : ReachesLeaf(i, Len(errs)))
    /\ [][/\ \A o \in Ops, e \in Errors, m \in OptMessages, f \in Frames, n \in 1..MaxErrs :
                (n = Len(errs) + 1 /\ Wrap(o, e, m, f)) =>
                    UnwrapError(n)' = <<e, e \in { SeerError(i) : i \in Refs }>>
          /\ \A i \in Refs : UnwrapError(i)' = UnwrapError(i)]_vars

\* A value wrapping a *Seer and a value wrapping a plain error, after WithCode
\* has acted on the first and the configuration has changed.
C8_Witness ==
    /\ defaultCode # 500
    /\ ~collectStackTrace
    /\ \E i, j \in Refs :
        /\ built[i].ctor = "Wrap"
        /\ UnwrapError(i) = <<SeerError(j), TRUE>>
        /\ errs[i].code = 100
        /\ UnwrapError(j) = <<PlainError(<<"i", "o">>), FALSE>>

\* C9: Error() is the message whenever a custom message was passed to the
\* constructor, and the original error's text when none was passed and there
\* is an original error.
C9_ErrorPrefersCustom ==
    \A i \in Refs :
        /\ built[i].custom => Error(i) = errs[i].message
        /\ (~built[i].custom /\ errs[i].originalError # NilError) => Error(i) = OriginalText(i)

\* C10: the default code is in [100,599], every stored code is 0 or in
\* [100,599], Code() of every value is in [100,599], and SetDefaultCode with a
\* code outside the range leaves the default code as it was.
C10_CodesInRange ==
    /\ [](/\ InRange(defaultCode)
          /\ \A i \in Refs : (errs[i].code = 0 \/ InRange(errs[i].code)) /\ InRange(Code(i)))
    /\ [][\A c \in CodeArgs :
            (SetDefaultCode(c) /\ ~InRange(c)) => defaultCode' = defaultCode]_vars

\* The default code has been changed, one value has no stored code and another
\* has one that WithCode stored.
C10_Witness ==
    /\ defaultCode = 100
    /\ \E i, j \in Refs :
        /\ errs[i].code = 0
        /\ Code(i) = 100
        /\ built[j].ctor # "New"
        /\ errs[j].code = 100

====
